---- MODULE Spec2Model ----
(***************************************************************************)
(* A model of the news aggregation services of this repository:            *)
(*   src/main.py  the asynchronous /v1/news pipeline (feeds -> articles -> *)
(*                extraction -> chunking) behind a TTL cache;              *)
(*   src/app.py   the threaded /news and /refresh endpoints over the       *)
(*                global news_cache.                                      *)
(* Strings are sequences of one-character strings.                         *)
(***************************************************************************)
EXTENDS Integers, Sequences, FiniteSets, TLC

VARIABLES
    \* chunk_text (src/main.py:107-136)
    text, chunk_size, overlap, paragraphs, chunks, current_chunk, chunk_pc,
    chunk_out,
    \* which of the two services runs, and what it printed
    program, log,
    \* get_all_news (src/main.py:162-201); fetches counts the calls of
    \* feedparser.parse per feed and of fetch_html per task (history)
    gpc, feed_tasks, tasks, task_res, outcome, fetches,
    \* src/app.py: the model, the global news_cache and the list objects it
    \* and the locals refer to; per thread its position, loop index, the links its
    \* run could not fetch (history), the response it builds, and the calls of
    \* feedparser.parse and get_full_content its run has made (history)
    model_ok, news_cache, heap, pc, feed_i, failed, resp, attempts,
    \* the TTL cache in front of get_all_news (src/main.py:33, 162-164): how
    \* the framework calls the endpoint, the clock, the cache, the coroutine
    \* objects, the requests and the number of fetch cycles started
    dispatch, now, ttl_cache, coro, call_pc, call_info, call_out, cycles,
    \* extract_content_from_html (src/main.py:78-105): its arguments, where
    \* the call is and what it returned or raised
    ex_html, ex_url, ex_pc, ex_out,
    \* the fan-out of get_all_news over all its feeds (src/main.py:172-191),
    \* by numbers: feeds parsed, entry tasks created, article fetches issued
    \* and article fetches ended
    fan_pc, fan_i, fan_tasks, fan_started, fan_done

chunkVars == <<text, chunk_size, overlap, paragraphs, chunks, current_chunk,
               chunk_pc, chunk_out>>

mainVars == <<gpc, feed_tasks, tasks, task_res, outcome, fetches>>

appVars == <<model_ok, news_cache, heap, pc, feed_i, failed, resp, attempts>>

cacheVars == <<dispatch, now, ttl_cache, coro, call_pc, call_info, call_out,
               cycles>>

extractVars == <<ex_html, ex_url, ex_pc, ex_out>>

fanVars == <<fan_pc, fan_i, fan_tasks, fan_started, fan_done>>

vars == <<chunkVars, program, log, mainVars, appVars, cacheVars, extractVars,
          fanVars>>

\* what the steps of one service leave alone
notChunk == <<fanVars, program, log, mainVars, appVars, cacheVars, extractVars>>
notMain == <<fanVars, program, chunkVars, appVars, cacheVars, extractVars>>
notApp == <<fanVars, program, chunkVars, mainVars, cacheVars, extractVars>>
notCache == <<fanVars, program, log, chunkVars, mainVars, appVars, extractVars>>
notExtract == <<program, log, chunkVars, mainVars, appVars, cacheVars, fanVars>>
notFan == <<program, log, chunkVars, mainVars, appVars, cacheVars, extractVars>>

None == "None"

(***************************************************************************)
(* The state of a service that is not the one running.                     *)
(***************************************************************************)
NoOutcome == [status |-> 0, body |-> <<>>, error |-> None]

ChunkIdle ==
    /\ text = <<>>
    /\ chunk_size = 0
    /\ overlap = 0
    /\ paragraphs = <<>>
    /\ chunks = <<>>
    /\ current_chunk = <<>>
    /\ chunk_pc = "off"
    /\ chunk_out = <<>>

MainIdle ==
    /\ gpc = "off"
    /\ feed_tasks = <<>>
    /\ tasks = <<>>
    /\ task_res = <<>>
    /\ outcome = NoOutcome
    /\ fetches = <<>>

AppIdle ==
    /\ model_ok = FALSE
    /\ news_cache = "initial"
    /\ heap = <<>>
    /\ pc = <<>>
    /\ feed_i = <<>>
    /\ failed = <<>>
    /\ resp = <<>>
    /\ attempts = <<>>

CacheIdle ==
    /\ dispatch = "off"
    /\ now = 0
    /\ ttl_cache = <<>>
    /\ coro = <<>>
    /\ call_pc = <<>>
    /\ call_info = <<>>
    /\ call_out = <<>>
    /\ cycles = 0

ExtractIdle ==
    /\ ex_html = <<>>
    /\ ex_url = <<>>
    /\ ex_pc = "off"
    /\ ex_out = <<>>

FanIdle ==
    /\ fan_pc = "off"
    /\ fan_i = 0
    /\ fan_tasks = 0
    /\ fan_started = 0
    /\ fan_done = 0

(***************************************************************************)
(* Bounds of the model.                                                    *)
(***************************************************************************)
MaxLen == 5
MaxChunkSize == 4
MaxEntries == 2
MaxAppEntries == 1
MaxCycleEntries == 1
MaxCalls == 3
MaxTicks == 3
MaxFeedLen == 6

(***************************************************************************)
(* Python string operations.                                               *)
(***************************************************************************)
NL == "\n"
SP == " "
Chars == {"a", "b", SP, NL}
Whitespace == {SP, NL}

RECURSIVE lstrip(_)
lstrip(s) == IF s # <<>> /\ Head(s) \in Whitespace THEN lstrip(Tail(s)) ELSE s

RECURSIVE rstrip(_)
rstrip(s) ==
    IF s # <<>> /\ s[Len(s)] \in Whitespace
    THEN rstrip(SubSeq(s, 1, Len(s) - 1))
    ELSE s

\* str.strip(): leading and trailing whitespace removed.
strip(s) == rstrip(lstrip(s))

\* str.split(sep): the pieces between the occurrences of sep (never empty list).
RECURSIVE split(_, _)
split(s, sep) ==
    IF \E i \in 1..Len(s) : s[i] = sep
    THEN LET i == CHOOSE k \in 1..Len(s) :
                      s[k] = sep /\ \A j \in 1..(k - 1) : s[j] # sep
         IN  <<SubSeq(s, 1, i - 1)>> \o split(SubSeq(s, i + 1, Len(s)), sep)
    ELSE <<s>>

\* sep.join(parts)
RECURSIVE join(_, _)
join(sep, parts) ==
    IF parts = <<>> THEN <<>>
    ELSE IF Len(parts) = 1 THEN parts[1]
    ELSE parts[1] \o sep \o join(sep, Tail(parts))

\* All strings over Chars of length at most n.
Strings(n) == UNION {[1..k -> Chars] : k \in 0..n}

(***************************************************************************)
(* chunk_text                                                              *)
(***************************************************************************)
DefaultChunkSize == 1000
DefaultOverlap == 150

\* line 125: the paragraph still fits the running chunk
FitsMissingCurrent(cur, p, size) == Len(p) + 1 <= size
Fits(cur, p, size) == Len(cur) + Len(p) + 1 <= size

\* lines 128-129 and 132-133: a non-empty running chunk is closed, stripped
CloseLost(cs, cur) == cs
Close(cs, cur) == IF cur # <<>> THEN Append(cs, strip(cur)) ELSE cs

\* lines 120-130: one iteration of the loop, on raw paragraph raw, from the
\* loop state st = [chunks, current_chunk]
PackKeepingBlank(st, raw, size) ==
    LET p == strip(raw) IN
    IF Fits(st.current_chunk, p, size)
    THEN [st EXCEPT !.current_chunk = @ \o p \o <<SP>>]
    ELSE [chunks |-> Close(st.chunks, st.current_chunk),
          current_chunk |-> p \o <<SP>>]
Pack(st, raw, size) ==
    LET p == strip(raw) IN
    IF p = <<>> THEN st
    ELSE IF Fits(st.current_chunk, p, size)
         THEN [st EXCEPT !.current_chunk = @ \o p \o <<SP>>]
         ELSE [chunks |-> Close(st.chunks, st.current_chunk),
               current_chunk |-> p \o <<SP>>]

RECURSIVE PackAll(_, _, _)
PackAll(st, ps, size) ==
    IF ps = <<>> THEN st ELSE PackAll(Pack(st, Head(ps), size), Tail(ps), size)

\* line 136
EnumerateFromOne(cs) == [i \in 1..Len(cs) |-> [chunk_id |-> i, text |-> cs[i]]]
Enumerate(cs) == [i \in 1..Len(cs) |-> [chunk_id |-> i - 1, text |-> cs[i]]]

\* lines 107-136, as one function (used by process_rss_entry)
chunk_text_overlapping(t, size, ov) ==
    IF t = <<>> THEN <<>>
    ELSE LET st == PackAll([chunks |-> <<>>, current_chunk |-> <<>>],
                           split(t, NL), size)
             cs == Close(st.chunks, st.current_chunk)
             Tail_(c) == SubSeq(c, IF Len(c) > ov THEN Len(c) - ov + 1 ELSE 1,
                                Len(c))
         IN  Enumerate([i \in 1..Len(cs) |->
                 IF i = 1 \/ ov = 0 THEN cs[i]
                 ELSE Tail_(cs[i - 1]) \o <<SP>> \o cs[i]])
chunk_text(t, size, ov) ==
    IF t = <<>> THEN <<>>
    ELSE LET st == PackAll([chunks |-> <<>>, current_chunk |-> <<>>],
                           split(t, NL), size)
         IN  Enumerate(Close(st.chunks, st.current_chunk))

(***************************************************************************)
(* Exceptions, feeds, entries and pages                                    *)
(***************************************************************************)
Raise(e) == [raised |-> e]
IsRaised(v) == "raised" \in DOMAIN v
Return(v) == [value |-> v]

\* the empty dict process_rss_entry returns (line 144)
EmptyDict == [empty |-> TRUE]

\* a task that has not run yet, a task whose request is in flight, and
\* whether a task has ended
Pending == [pending |-> TRUE]
Fetching == [fetching |-> TRUE]
TaskEnded(r) == r # Pending /\ r # Fetching

\* The configured feeds, in list order (two of the entries of RSS_FEEDS).
RSS_FEEDS == <<"cafef.vn", "vneconomy.vn">>
FeedSet == {RSS_FEEDS[i] : i \in 1..Len(RSS_FEEDS)}

\* feed.entries[:5] (line 185)
EntryCap == 5
Take(s, n) == SubSeq(s, 1, IF Len(s) < n THEN Len(s) ELSE n)

\* An HTML document: the nodes of its body in document order, each inside one
\* of the containers the extractor looks for (or directly in the body).
Containers == {"div.detail__content", "div#mainContent", "div#content",
               "article", "main"}
Node(within, tag, t) == [within |-> within, tag |-> tag, text |-> t]
Html(present, nodes) ==
    [kind |-> "html", rejected |-> FALSE, has_body |-> TRUE,
     present |-> present, nodes |-> nodes]

\* a page with an article region, a script inside it and text outside it
PageArticle ==
    Html({"article"}, << Node("article", "p", <<"a">>),
                         Node("article", "script", <<"b">>),
                         Node("body", "p", <<"b">>) >>)
\* a page with text but none of the regions the extractor looks for
PageBare == Html({}, << Node("body", "p", <<"b">>) >>)
\* markup the parser rejects (bs4 raises ParserRejectedMarkup)
PageRejected ==
    [kind |-> "html", rejected |-> TRUE, has_body |-> FALSE,
     present |-> {}, nodes |-> <<>>]
\* the request failed: transport error, non-2xx status or timeout
Unreachable == [kind |-> "unreachable"]
\* the empty string, where a page was expected
EmptyString == [kind |-> "empty"]
Pages == {Unreachable, PageArticle, PageBare, PageRejected}

\* The i-th entry of feed f as feedparser gives it.
Entry(f, i) ==
    [feed |-> f,
     link |-> [host |-> f, path |-> i],
     title |-> <<"t">>,
     published |-> i,
     summary |-> << Node("body", "p", <<"s">>) >>]
ParsedFeed(f, n) == [title |-> f, entries |-> [i \in 1..n |-> Entry(f, i)]]

(***************************************************************************)
(* BeautifulSoup                                                           *)
(***************************************************************************)
\* soup.find(...): the region's nodes, or None when the region is absent
NotFound == [found |-> FALSE]
find(html, c) ==
    IF c \in html.present
    THEN LET In(n) == n.within = c
         IN  [found |-> TRUE, nodes |-> SelectSeq(html.nodes, In)]
    ELSE NotFound

\* tag.decompose() for every tag named in tags
Decompose(nodes, tags) ==
    LET Kept(n) == n.tag \notin tags IN SelectSeq(nodes, Kept)

\* get_text(separator=sep, strip=True): the stripped non-empty strings joined
RECURSIVE StrippedStrings(_)
StrippedStrings(nodes) ==
    IF nodes = <<>> THEN <<>>
    ELSE IF strip(Head(nodes).text) = <<>> THEN StrippedStrings(Tail(nodes))
         ELSE <<strip(Head(nodes).text)>> \o StrippedStrings(Tail(nodes))
get_text_stripped(nodes, sep) == join(sep, StrippedStrings(nodes))

\* get_text(): the strings concatenated
RECURSIVE get_text(_)
get_text(nodes) ==
    IF nodes = <<>> THEN <<>> ELSE Head(nodes).text \o get_text(Tail(nodes))

(***************************************************************************)
(* src/main.py: fetch, extraction, one entry                               *)
(***************************************************************************)
\* lines 72-76: every whitespace run holding a newline becomes one newline,
\* every other run of blanks one blank; then strip
RECURSIVE Collapse(_)
Collapse(s) ==
    IF s = <<>> THEN <<>>
    ELSE IF Head(s) \notin Whitespace THEN <<Head(s)>> \o Collapse(Tail(s))
    ELSE LET rest == lstrip(s)
             run == SubSeq(s, 1, Len(s) - Len(rest))
         IN  (IF \E i \in 1..Len(run) : run[i] = NL THEN <<NL>> ELSE <<SP>>)
             \o Collapse(rest)
clean_text(s) == strip(Collapse(s))

\* lines 62-70: the HTML text, or "" after printing the error
fetch_html(page) == IF page = Unreachable THEN EmptyString ELSE page

\* lines 87-92: the publisher-keyed rule for the url
KeyedSelector(url) ==
    IF url.host = "vneconomy.vn" THEN "div.detail__content"
    ELSE IF url.host \in {"cafef.vn", "cafebiz.vn"} THEN "div#mainContent"
    ELSE IF url.host = "vietstock.vn" THEN "div#content"
    ELSE None

MainRemoved == {"script", "style", "nav", "footer", "aside", "form"}

\* lines 78-105: Return(text), or the exception the parser raises
extract_content_body_fallback(html, url) ==
    IF html.rejected THEN Raise("ParserRejectedMarkup")
    ELSE
    LET keyed == IF KeyedSelector(url) = None THEN NotFound
                 ELSE find(html, KeyedSelector(url))
        content == IF keyed.found THEN keyed
                   ELSE IF find(html, "article").found THEN find(html, "article")
                   ELSE IF find(html, "main").found THEN find(html, "main")
                   ELSE [found |-> TRUE, nodes |-> html.nodes]
    IN  Return(clean_text(get_text_stripped(
            Decompose(content.nodes, MainRemoved), <<NL>>)))
extract_content_from_html(html, url) ==
    IF html.rejected THEN Raise("ParserRejectedMarkup")
    ELSE
    LET keyed == IF KeyedSelector(url) = None THEN NotFound
                 ELSE find(html, KeyedSelector(url))
        content == IF keyed.found THEN keyed
                   ELSE IF find(html, "article").found THEN find(html, "article")
                   ELSE find(html, "main")
    IN  IF ~content.found THEN Return(<<>>)
        ELSE Return(clean_text(get_text_stripped(
                 Decompose(content.nodes, MainRemoved), <<NL>>)))

\* lines 150-157
ArticleDict(entry, cs) ==
    [source |-> entry.feed,
     title |-> entry.title,
     link |-> entry.link,
     published |-> entry.published,
     summary |-> get_text(entry.summary),
     full_text_chunks |-> cs]

\* lines 143-144: what the task returns when no HTML came back
SummaryFallback(entry) ==
    ArticleDict(entry,
        chunk_text(get_text(entry.summary), DefaultChunkSize, DefaultOverlap))
OnFetchFailure(entry) == EmptyDict

\* lines 138-157: what the task returns (or raises) when the fetch gives page
process_rss_entry_dropping_empty(entry, page) ==
    LET html == fetch_html(page) IN
    IF html = EmptyString THEN OnFetchFailure(entry)
    ELSE LET full_text == extract_content_from_html(html, entry.link) IN
         IF IsRaised(full_text) THEN full_text
         ELSE IF full_text.value = <<>> THEN EmptyDict
         ELSE ArticleDict(entry,
                  chunk_text(full_text.value, DefaultChunkSize, DefaultOverlap))
process_rss_entry(entry, page) ==
    LET html == fetch_html(page) IN
    IF html = EmptyString THEN OnFetchFailure(entry)
    ELSE LET full_text == extract_content_from_html(html, entry.link) IN
         IF IsRaised(full_text) THEN full_text
         ELSE ArticleDict(entry,
                  chunk_text(full_text.value, DefaultChunkSize, DefaultOverlap))

\* sorted(..., key=published, reverse=True): stable, non-increasing
RECURSIVE InsertDescTiesFirst(_, _)
InsertDescTiesFirst(x, s) ==
    IF s = <<>> THEN <<x>>
    ELSE IF Head(s).published > x.published
         THEN <<Head(s)>> \o InsertDescTiesFirst(x, Tail(s))
         ELSE <<x>> \o s
RECURSIVE InsertDesc(_, _)
InsertDesc(x, s) ==
    IF s = <<>> THEN <<x>>
    ELSE IF Head(s).published >= x.published
         THEN <<Head(s)>> \o InsertDesc(x, Tail(s))
         ELSE <<x>> \o s
RECURSIVE SortedByPublishedDesc(_)
SortedByPublishedDesc(s) ==
    IF s = <<>> THEN <<>>
    ELSE InsertDesc(s[Len(s)], SortedByPublishedDesc(SubSeq(s, 1, Len(s) - 1)))

\* line 194
RECURSIVE NonEmptyResults(_)
NonEmptyResults(rs) ==
    IF rs = <<>> THEN <<>>
    ELSE IF Head(rs) = EmptyDict THEN NonEmptyResults(Tail(rs))
         ELSE <<Head(rs)>> \o NonEmptyResults(Tail(rs))

\* lines 183-188: one task per entry among the first five of each feed
RECURSIVE ProcessingTasks(_)
ProcessingTasks(parsed) ==
    IF parsed = <<>> THEN <<>>
    ELSE Take(Head(parsed).entries, EntryCap) \o ProcessingTasks(Tail(parsed))

\* lines 194-201: the answer once every task has returned
Answer(returned) ==
    LET all_articles == NonEmptyResults(returned) IN
    IF all_articles = <<>>
    THEN [status |-> 503, body |-> <<>>, error |-> "HTTPException"]
    ELSE [status |-> 200, body |-> SortedByPublishedDesc(all_articles),
          error |-> None]

ServerError(e) == [status |-> 500, body |-> <<>>, error |-> e]

(***************************************************************************)
(* get_all_news (src/main.py:164-201), one run of the coroutine            *)
(***************************************************************************)
MainInit ==
    /\ program = "main"
    /\ ChunkIdle
    /\ AppIdle
    /\ CacheIdle
    /\ ExtractIdle
    /\ FanIdle
    /\ log = {}
    /\ gpc = "call"
    /\ feed_tasks = <<>>
    /\ tasks = <<>>
    /\ task_res = <<>>
    /\ outcome = NoOutcome
    /\ fetches = [feeds |-> [i \in 1..Len(RSS_FEEDS) |-> 0], entries |-> <<>>]

\* lines 169-179: one parsing thread per feed, gathered
StartFeeds ==
    /\ program = "main"
    /\ gpc = "call"
    /\ gpc' = "feeds"
    /\ feed_tasks' = [i \in 1..Len(RSS_FEEDS) |-> Pending]
    /\ UNCHANGED <<tasks, task_res, outcome, fetches, log, notMain>>

\* line 176: feedparser.parse(url) is called; it returns the parsed feed, or
\* raises
ParseFeed(i) ==
    /\ program = "main"
    /\ gpc = "feeds"
    /\ feed_tasks[i] = Pending
    /\ \/ feed_tasks' = [feed_tasks EXCEPT ![i] = Raise("URLError")]
       \/ \E n \in 0..MaxEntries :
             feed_tasks' = [feed_tasks EXCEPT ![i] = ParsedFeed(RSS_FEEDS[i], n)]
    /\ fetches' = [fetches EXCEPT !.feeds[i] = @ + 1]
    /\ UNCHANGED <<gpc, tasks, task_res, outcome, log, notMain>>

\* line 179: gather re-raises the first exception of a parsing thread; nothing
\* in get_all_news catches it
FeedsRaise ==
    /\ program = "main"
    /\ gpc = "feeds"
    /\ \E i \in 1..Len(feed_tasks) :
          /\ IsRaised(feed_tasks[i])
          /\ outcome' = ServerError(feed_tasks[i].raised)
    /\ gpc' = "raised"
    /\ UNCHANGED <<feed_tasks, tasks, task_res, fetches, log, notMain>>

\* lines 179-188: every feed parsed; the entry tasks are created
StartEntries ==
    /\ program = "main"
    /\ gpc = "feeds"
    /\ \A i \in 1..Len(feed_tasks) :
          feed_tasks[i] # Pending /\ ~IsRaised(feed_tasks[i])
    /\ tasks' = ProcessingTasks(feed_tasks)
    /\ task_res' = [k \in 1..Len(tasks') |-> Pending]
    /\ fetches' = [fetches EXCEPT !.entries = [k \in 1..Len(tasks') |-> 0]]
    /\ gpc' = "entries"
    /\ UNCHANGED <<feed_tasks, outcome, log, notMain>>

\* lines 191, 141 and 65: gather schedules the tasks in list order and each
\* runs, without waiting for anything, up to the request of fetch_html
StartFetchRetrying(k) ==
    /\ program = "main"
    /\ gpc = "entries"
    /\ task_res[k] \in {Pending, Fetching}
    /\ \A j \in 1..(k - 1) : task_res[j] # Pending
    /\ task_res' = [task_res EXCEPT ![k] = Fetching]
    /\ fetches' = [fetches EXCEPT !.entries[k] = @ + 1]
    /\ UNCHANGED <<gpc, feed_tasks, tasks, outcome, log, notMain>>
StartFetch(k) ==
    /\ program = "main"
    /\ gpc = "entries"
    /\ task_res[k] = Pending
    /\ \A j \in 1..(k - 1) : task_res[j] # Pending
    /\ task_res' = [task_res EXCEPT ![k] = Fetching]
    /\ fetches' = [fetches EXCEPT !.entries[k] = @ + 1]
    /\ UNCHANGED <<gpc, feed_tasks, tasks, outcome, log, notMain>>

\* lines 65-70 and 143-157: the request of task k ends and the task finishes;
\* no response is handled before every task has run up to its request
ProcessEntry(k) ==
    /\ program = "main"
    /\ gpc = "entries"
    /\ task_res[k] = Fetching
    /\ \A j \in 1..Len(task_res) : task_res[j] # Pending
    /\ \E page \in Pages :
          /\ task_res' = [task_res EXCEPT ![k] =
                 [page |-> page, ret |-> process_rss_entry(tasks[k], page)]]
          /\ log' = IF page = Unreachable
                    THEN log \cup {<<"Error fetching", tasks[k].link>>}
                    ELSE log
    /\ UNCHANGED <<gpc, feed_tasks, tasks, outcome, fetches, notMain>>

\* line 191: gather re-raises the first exception of an entry task
EntriesRaise ==
    /\ program = "main"
    /\ gpc = "entries"
    /\ \E k \in 1..Len(task_res) :
          /\ TaskEnded(task_res[k])
          /\ IsRaised(task_res[k].ret)
          /\ outcome' = ServerError(task_res[k].ret.raised)
    /\ gpc' = "raised"
    /\ UNCHANGED <<feed_tasks, tasks, task_res, fetches, log, notMain>>

\* lines 191-201: every task returned
Finish ==
    /\ program = "main"
    /\ gpc = "entries"
    /\ \A k \in 1..Len(task_res) :
          TaskEnded(task_res[k]) /\ ~IsRaised(task_res[k].ret)
    /\ outcome' = Answer([k \in 1..Len(task_res) |-> task_res[k].ret])
    /\ gpc' = IF outcome'.status = 200 THEN "returned" ELSE "raised"
    /\ UNCHANGED <<feed_tasks, tasks, task_res, fetches, log, notMain>>

MainNext ==
    \/ StartFeeds
    \/ \E i \in 1..Len(RSS_FEEDS) : ParseFeed(i)
    \/ FeedsRaise
    \/ StartEntries
    \/ \E k \in 1..Len(tasks) : StartFetch(k)
    \/ \E k \in 1..Len(tasks) : ProcessEntry(k)
    \/ EntriesRaise
    \/ Finish

(***************************************************************************)
(* src/app.py: one article's content                                       *)
(***************************************************************************)
\* str.split(): the maximal runs of non-whitespace characters
RECURSIVE words(_)
words(s) ==
    LET t == lstrip(s) IN
    IF t = <<>> THEN <<>>
    ELSE LET n == IF \E i \in 1..Len(t) : t[i] \in Whitespace
                  THEN (CHOOSE i \in 1..Len(t) :
                            /\ t[i] \in Whitespace
                            /\ \A j \in 1..(i - 1) : t[j] \notin Whitespace) - 1
                  ELSE Len(t)
         IN  <<SubSeq(t, 1, n)>> \o words(SubSeq(t, n + 1, Len(t)))

AppRemoved == {"script", "style", "header", "footer", "nav", "aside"}

\* lines 58-76: the normalised body text, or "" after any exception
get_full_content(page) ==
    IF page = Unreachable \/ page.rejected \/ ~page.has_body THEN <<>>
    ELSE join(<<SP>>,
              words(get_text_stripped(Decompose(page.nodes, AppRemoved), <<SP>>)))

\* lines 99-105
AppArticle(entry, full_content) ==
    [title |-> entry.title,
     link |-> entry.link,
     published |-> entry.published,
     summary |-> entry.summary,
     full_content |-> full_content]

\* lines 116-120: the vector is attached and full_content deleted
Embedded(article) ==
    [title |-> article.title,
     link |-> article.link,
     published |-> article.published,
     summary |-> article.summary,
     vector |-> [encoded |-> article.full_content]]
EmbedAll(articles) == [i \in 1..Len(articles) |-> Embedded(articles[i])]

\* an entry whose dict lacks a field the loop reads as an attribute
NoLink == [kind |-> "no_link"]
Fates == {Unreachable, PageRejected, PageArticle, NoLink}

\* lines 93-106: the entries of one parsed feed, in order, fates[i] being what
\* entry i meets; the articles appended until the loop ends or raises
RECURSIVE FeedLoop(_, _, _)
FeedLoop(entries, fates, acc) ==
    IF entries = <<>> THEN [articles |-> acc, raised |-> FALSE]
    ELSE IF Head(fates) = NoLink THEN [articles |-> acc, raised |-> TRUE]
    ELSE LET full_content == get_full_content(Head(fates)) IN
         FeedLoop(Tail(entries), Tail(fates),
                  IF full_content # <<>>
                  THEN Append(acc, AppArticle(Head(entries), full_content))
                  ELSE acc)

\* lines 93-95: the calls of get_full_content the same walk makes, counted by
\* link, from counts
RECURSIVE FeedLoopFetches(_, _, _)
FeedLoopFetches(entries, fates, counts) ==
    IF entries = <<>> \/ Head(fates) = NoLink THEN counts
    ELSE FeedLoopFetches(Tail(entries), Tail(fates),
                         [counts EXCEPT ![Head(entries).link] = @ + 1])
NotFetched(entries) ==
    [l \in {entries[i].link : i \in 1..Len(entries)} |-> 0]

\* the links of the entries the loop reached whose page could not be fetched
FailedFetches(entries, fates) ==
    {entries[i].link : i \in {j \in 1..Len(entries) :
        /\ fates[j] = Unreachable
        /\ \A k \in 1..j : fates[k] # NoLink}}

(***************************************************************************)
(* src/app.py: process_feeds, /news and /refresh, one thread per request   *)
(***************************************************************************)
Threads == {"startup", "reader", "refresher"}
\* the list objects: the [] of line 43 and each call's processed_articles
Refs == {"initial"} \cup Threads

NoResponse ==
    [status |-> 0, count |-> 0, articles |-> "initial", body |-> <<>>,
     articles_found |-> 0]

\* no call of feedparser.parse and none of get_full_content yet
NoAttempts == [parses |-> 0, entries |-> <<>>]

AppInit ==
    /\ program = "app"
    /\ log = {}
    /\ ChunkIdle
    /\ MainIdle
    /\ CacheIdle
    /\ ExtractIdle
    /\ FanIdle
    /\ model_ok \in BOOLEAN
    /\ news_cache = "initial"
    /\ heap = [r \in Refs |-> <<>>]
    /\ pc = [t \in Threads |-> IF t = "startup" THEN "pf_enter" ELSE "wait"]
    /\ feed_i = [t \in Threads |-> 1]
    /\ failed = [t \in Threads |-> {}]
    /\ resp = [t \in Threads |-> NoResponse]
    /\ attempts = [t \in Threads |-> NoAttempts]

\* where process_feeds returns to
AfterProcessFeeds(t) ==
    IF t = "startup" THEN "done"
    ELSE IF t = "reader" THEN "gn_recheck"
    ELSE "rf_count"

\* lines 82-83: news_cache is declared global; only the local is bound
CacheBoundAtEntry(t, cache) == t
CacheAtEntry(t, cache) == cache

\* lines 82-89
ProcessFeedsEnterUnchecked(t) ==
    /\ program = "app"
    /\ pc[t] = "pf_enter"
    /\ heap' = [heap EXCEPT ![t] = <<>>]
    /\ news_cache' = CacheAtEntry(t, news_cache)
    /\ pc' = [pc EXCEPT ![t] = "pf_feeds"]
    /\ log' = log
    /\ UNCHANGED <<model_ok, feed_i, failed, resp, attempts, notApp>>
ProcessFeedsEnter(t) ==
    /\ program = "app"
    /\ pc[t] = "pf_enter"
    /\ heap' = [heap EXCEPT ![t] = <<>>]
    /\ news_cache' = CacheAtEntry(t, news_cache)
    /\ IF model_ok
       THEN /\ pc' = [pc EXCEPT ![t] = "pf_feeds"]
            /\ log' = log
       ELSE /\ pc' = [pc EXCEPT ![t] = AfterProcessFeeds(t)]
            /\ log' = log \cup {<<"Model is not available", "">>}
    /\ UNCHANGED <<model_ok, feed_i, failed, resp, attempts, notApp>>

\* lines 90-109: the next feed of the list; parse raises, or its entries are
\* walked until the end or an exception, which the handler of line 107 logs
ProcessFeed(t) ==
    /\ program = "app"
    /\ pc[t] = "pf_feeds"
    /\ feed_i[t] <= Len(RSS_FEEDS)
    /\ LET f == RSS_FEEDS[feed_i[t]] IN
       \/ /\ log' = log \cup {<<"Error processing feed", f>>}
          /\ attempts' = [attempts EXCEPT ![t].parses = @ + 1]
          /\ UNCHANGED <<heap, failed>>
       \/ \E n \in 0..MaxAppEntries : \E fates \in [1..n -> Fates] :
             LET r == FeedLoop(ParsedFeed(f, n).entries, fates, heap[t]) IN
             /\ heap' = [heap EXCEPT ![t] = r.articles]
             /\ attempts' = [attempts EXCEPT
                    ![t].parses = @ + 1,
                    ![t].entries = @ @@ FeedLoopFetches(
                        ParsedFeed(f, n).entries, fates,
                        NotFetched(ParsedFeed(f, n).entries))]
             /\ log' = IF r.raised
                       THEN log \cup {<<"Error processing feed", f>>}
                       ELSE log
             /\ failed' = [failed EXCEPT ![t] =
                               @ \cup FailedFetches(ParsedFeed(f, n).entries, fates)]
    /\ feed_i' = [feed_i EXCEPT ![t] = @ + 1]
    /\ UNCHANGED <<model_ok, news_cache, pc, resp, notApp>>

\* lines 111-120; the loop over the feeds has ended and its history is dropped
ProcessFeedsEncode(t) ==
    /\ program = "app"
    /\ pc[t] = "pf_feeds"
    /\ feed_i[t] > Len(RSS_FEEDS)
    /\ heap' = [heap EXCEPT ![t] = EmbedAll(@)]
    /\ pc' = [pc EXCEPT ![t] = "pf_publish"]
    /\ failed' = [failed EXCEPT ![t] = {}]
    /\ attempts' = [attempts EXCEPT ![t] = NoAttempts]
    /\ UNCHANGED <<model_ok, news_cache, feed_i, resp, log, notApp>>

\* lines 122-124
ProcessFeedsPublishIfFound(t) ==
    /\ program = "app"
    /\ pc[t] = "pf_publish"
    /\ news_cache' = IF heap[t] # <<>> THEN t ELSE news_cache
    /\ pc' = [pc EXCEPT ![t] = AfterProcessFeeds(t)]
    /\ UNCHANGED <<model_ok, heap, feed_i, failed, resp, attempts, log, notApp>>
ProcessFeedsPublish(t) ==
    /\ program = "app"
    /\ pc[t] = "pf_publish"
    /\ news_cache' = t
    /\ pc' = [pc EXCEPT ![t] = AfterProcessFeeds(t)]
    /\ UNCHANGED <<model_ok, heap, feed_i, failed, resp, attempts, log, notApp>>

\* requests are served once the startup handler (lines 130-137) has returned
Serving == pc["startup"] = "done"

\* line 149-152
GetNewsCheck ==
    /\ program = "app"
    /\ Serving
    /\ pc["reader"] = "wait"
    /\ pc' = [pc EXCEPT !["reader"] =
                 IF heap[news_cache] = <<>> THEN "pf_enter" ELSE "gn_count"]
    /\ UNCHANGED <<model_ok, news_cache, heap, feed_i, failed, resp, attempts, log, notApp>>

\* lines 153-154
GetNewsRecheck ==
    /\ program = "app"
    /\ pc["reader"] = "gn_recheck"
    /\ IF heap[news_cache] = <<>>
       THEN /\ resp' = [resp EXCEPT !["reader"].status = 503]
            /\ pc' = [pc EXCEPT !["reader"] = "done"]
       ELSE /\ pc' = [pc EXCEPT !["reader"] = "gn_count"]
            /\ UNCHANGED resp
    /\ UNCHANGED <<model_ok, news_cache, heap, feed_i, failed, attempts, log, notApp>>

\* line 156, len(news_cache)
GetNewsCount ==
    /\ program = "app"
    /\ pc["reader"] = "gn_count"
    /\ resp' = [resp EXCEPT !["reader"].count = Len(heap[news_cache])]
    /\ pc' = [pc EXCEPT !["reader"] = "gn_articles"]
    /\ UNCHANGED <<model_ok, news_cache, heap, feed_i, failed, attempts, log, notApp>>

\* line 156, the second load of news_cache
GetNewsArticles ==
    /\ program = "app"
    /\ pc["reader"] = "gn_articles"
    /\ resp' = [resp EXCEPT !["reader"].articles = news_cache]
    /\ pc' = [pc EXCEPT !["reader"] = "gn_send"]
    /\ UNCHANGED <<model_ok, news_cache, heap, feed_i, failed, attempts, log, notApp>>

\* the returned dict is serialised: the list it refers to is read
GetNewsSend ==
    /\ program = "app"
    /\ pc["reader"] = "gn_send"
    /\ resp' = [resp EXCEPT !["reader"].body = heap[resp["reader"].articles],
                            !["reader"].status = 200]
    /\ pc' = [pc EXCEPT !["reader"] = "done"]
    /\ UNCHANGED <<model_ok, news_cache, heap, feed_i, failed, attempts, log, notApp>>

\* lines 163-164
RefreshCall ==
    /\ program = "app"
    /\ Serving
    /\ pc["refresher"] = "wait"
    /\ pc' = [pc EXCEPT !["refresher"] = "pf_enter"]
    /\ UNCHANGED <<model_ok, news_cache, heap, feed_i, failed, resp, attempts, log, notApp>>

\* line 165
RefreshCount ==
    /\ program = "app"
    /\ pc["refresher"] = "rf_count"
    /\ resp' = [resp EXCEPT !["refresher"].articles_found = Len(heap[news_cache]),
                            !["refresher"].status = 200]
    /\ pc' = [pc EXCEPT !["refresher"] = "done"]
    /\ UNCHANGED <<model_ok, news_cache, heap, feed_i, failed, attempts, log, notApp>>

AppNext ==
    \/ \E t \in Threads : ProcessFeedsEnter(t)
    \/ \E t \in Threads : ProcessFeed(t)
    \/ \E t \in Threads : ProcessFeedsEncode(t)
    \/ \E t \in Threads : ProcessFeedsPublish(t)
    \/ GetNewsCheck
    \/ GetNewsRecheck
    \/ GetNewsCount
    \/ GetNewsArticles
    \/ GetNewsSend
    \/ RefreshCall
    \/ RefreshCount

(***************************************************************************)
(* @cached(cache) over the coroutine function get_all_news                 *)
(* (src/main.py:33, 162-164): the cache holds the coroutine object the     *)
(* call returns, not its result.                                           *)
(***************************************************************************)
\* line 33; the clock advances by half a TTL at a time
TTL == 300
TickLen == TTL \div 2

Calls == 1..MaxCalls

\* lines 169-201 run to the end: feeds[i] is what parsing feed i gives and
\* pages[k] what the fetch of task k gives
CycleTasks(feeds) ==
    IF \E i \in 1..Len(feeds) : IsRaised(feeds[i]) THEN <<>>
    ELSE ProcessingTasks(feeds)
CycleAnswer(feeds, pages) ==
    IF \E i \in 1..Len(feeds) : IsRaised(feeds[i])
    THEN ServerError("URLError")
    ELSE LET ts == CycleTasks(feeds)
             rets == [k \in 1..Len(ts) |-> process_rss_entry(ts[k], pages[k])]
         IN  IF \E k \in 1..Len(ts) : IsRaised(rets[k])
             THEN ServerError("ParserRejectedMarkup")
             ELSE Answer(rets)

FeedResults ==
    [1..Len(RSS_FEEDS) ->
        {Raise("URLError")} \cup
        UNION {{ParsedFeed(f, n) : n \in 0..MaxCycleEntries} : f \in FeedSet}]
\* each position holds a result of its own feed
CycleFeeds ==
    {fs \in FeedResults :
        \A i \in 1..Len(RSS_FEEDS) :
            IsRaised(fs[i]) \/ fs[i].title = RSS_FEEDS[i]}

CacheInit ==
    /\ program = "cache"
    /\ log = {}
    /\ ChunkIdle
    /\ MainIdle
    /\ AppIdle
    /\ ExtractIdle
    /\ FanIdle
    /\ dispatch \in {"awaited", "threadpool"}
    /\ now = 0
    /\ ttl_cache = [present |-> FALSE, value |-> 0, expires |-> 0]
    /\ coro = [c \in Calls |-> "none"]
    /\ call_pc = [c \in Calls |-> "idle"]
    /\ call_info = [c \in Calls |-> [at |-> 0, coro |-> 0, hit |-> FALSE]]
    /\ call_out = [c \in Calls |-> NoOutcome]
    /\ cycles = 0

Tick ==
    /\ program = "cache"
    /\ now < MaxTicks * TickLen
    /\ now' = now + TickLen
    /\ UNCHANGED <<dispatch, ttl_cache, coro, call_pc, call_info, call_out,
                   cycles, notCache>>

\* TTLCache.__getitem__: the item is there and now < expires
CacheHit == ttl_cache.present /\ now < ttl_cache.expires

\* A request: the wrapper of @cached returns the cached coroutine object, or
\* calls get_all_news (which only creates a coroutine object) and caches it.
\* The framework then awaits what it got, or, taking the wrapper for a plain
\* function, hands the coroutine object to the response validation.
CallNews(c) ==
    /\ program = "cache"
    /\ call_pc[c] = "idle"
    /\ \A d \in Calls : d < c => call_pc[d] # "idle"
    /\ LET r == IF CacheHit THEN ttl_cache.value ELSE c IN
       /\ ttl_cache' = IF CacheHit THEN ttl_cache
                       ELSE [present |-> TRUE, value |-> c, expires |-> now + TTL]
       /\ call_info' = [call_info EXCEPT ![c] =
                           [at |-> now, coro |-> r, hit |-> CacheHit]]
       /\ IF dispatch = "threadpool"
          THEN /\ coro' = IF CacheHit THEN coro ELSE [coro EXCEPT ![c] = "created"]
               /\ call_out' = [call_out EXCEPT ![c] =
                                  ServerError("ResponseValidationError")]
               /\ call_pc' = [call_pc EXCEPT ![c] = "done"]
               /\ UNCHANGED cycles
          ELSE IF CacheHit
          THEN \* awaiting a coroutine that is running or has finished
               /\ call_out' = [call_out EXCEPT ![c] = ServerError("RuntimeError")]
               /\ call_pc' = [call_pc EXCEPT ![c] = "done"]
               /\ UNCHANGED <<coro, cycles>>
          ELSE /\ coro' = [coro EXCEPT ![c] = "running"]
               /\ cycles' = cycles + 1
               /\ call_pc' = [call_pc EXCEPT ![c] = "awaiting"]
               /\ UNCHANGED call_out
    /\ UNCHANGED <<dispatch, now, notCache>>

\* the coroutine of call c runs lines 169-201 to the end
CycleEnds(c) ==
    /\ program = "cache"
    /\ call_pc[c] = "awaiting"
    /\ \E feeds \in CycleFeeds :
          \E pages \in [1..Len(CycleTasks(feeds)) -> Pages] :
              call_out' = [call_out EXCEPT ![c] = CycleAnswer(feeds, pages)]
    /\ coro' = [coro EXCEPT ![c] = "finished"]
    /\ call_pc' = [call_pc EXCEPT ![c] = "done"]
    /\ UNCHANGED <<dispatch, now, ttl_cache, call_info, cycles, notCache>>

CacheNext ==
    \/ Tick
    \/ \E c \in Calls : CallNews(c)
    \/ \E c \in Calls : CycleEnds(c)

SpecCache == CacheInit /\ [][CacheNext]_vars

\* chunk_text, statement by statement.
ChunkInit ==
    /\ text \in Strings(MaxLen)
    /\ chunk_size \in 0..MaxChunkSize
    /\ overlap \in {0, DefaultOverlap}
    /\ paragraphs = <<>>
    /\ chunks = <<>>
    /\ current_chunk = <<>>
    /\ chunk_pc = "call"
    /\ chunk_out = <<>>
    /\ program = "chunk_text"
    /\ log = {}
    /\ MainIdle
    /\ AppIdle
    /\ CacheIdle
    /\ ExtractIdle
    /\ FanIdle

\* lines 112-118
ChunkEnter ==
    /\ chunk_pc = "call"
    /\ IF text = <<>>
       THEN /\ chunk_out' = <<>>
            /\ chunk_pc' = "returned"
            /\ UNCHANGED paragraphs
       ELSE /\ paragraphs' = split(text, NL)
            /\ chunk_pc' = "loop"
            /\ UNCHANGED chunk_out
    /\ UNCHANGED <<text, chunk_size, overlap, chunks, current_chunk, notChunk>>

\* lines 120-130
ChunkLoop ==
    /\ chunk_pc = "loop"
    /\ paragraphs # <<>>
    /\ LET st == Pack([chunks |-> chunks, current_chunk |-> current_chunk],
                      Head(paragraphs), chunk_size)
       IN  /\ chunks' = st.chunks
           /\ current_chunk' = st.current_chunk
    /\ paragraphs' = Tail(paragraphs)
    /\ UNCHANGED <<text, chunk_size, overlap, chunk_pc, chunk_out, notChunk>>

\* lines 132-136
ChunkReturn ==
    /\ chunk_pc = "loop"
    /\ paragraphs = <<>>
    /\ chunk_out' = Enumerate(Close(chunks, current_chunk))
    /\ chunk_pc' = "returned"
    /\ UNCHANGED <<text, chunk_size, overlap, paragraphs, chunks,
                   current_chunk, notChunk>>

ChunkNext == ChunkEnter \/ ChunkLoop \/ ChunkReturn

SpecChunk == ChunkInit /\ [][ChunkNext]_vars

(***************************************************************************)
(* extract_content_from_html on its own: documents holding any of the       *)
(* regions the extractor looks for, each with a text of its own, and urls   *)
(* of the keyed publishers and of another site.                             *)
(***************************************************************************)
Hosts == {"vneconomy.vn", "cafef.vn", "cafebiz.vn", "vietstock.vn",
          "example.com"}

\* the text a region of the document shows
Marker(c) ==
    CASE c = "div.detail__content" -> <<"d">>
      [] c = "div#mainContent" -> <<"m">>
      [] c = "div#content" -> <<"c">>
      [] c = "article" -> <<"r">>
      [] c = "main" -> <<"n">>
      [] OTHER -> <<"b">>

ContainerOrder == <<"div.detail__content", "div#mainContent", "div#content",
                    "article", "main">>

\* the nodes of region c: a padded paragraph and a script
Region(c) ==
    << Node(c, "p", <<SP>> \o Marker(c) \o <<NL>>), Node(c, "script", <<"j">>) >>

RECURSIVE Regions(_, _)
Regions(cs, present) ==
    IF cs = <<>> THEN <<>>
    ELSE (IF Head(cs) \in present THEN Region(Head(cs)) ELSE <<>>)
         \o Regions(Tail(cs), present)

\* a document whose body holds a paragraph of its own and the regions present
Doc(present) ==
    Html(present, <<Node("body", "p", Marker("body"))>>
                  \o Regions(ContainerOrder, present))
Docs == {Doc(present) : present \in SUBSET Containers} \cup {PageRejected}

ExtractInit ==
    /\ program = "extract"
    /\ log = {}
    /\ ChunkIdle
    /\ MainIdle
    /\ AppIdle
    /\ CacheIdle
    /\ FanIdle
    /\ ex_html \in Docs
    /\ ex_url \in {[host |-> h, path |-> 1] : h \in Hosts}
    /\ ex_pc = "call"
    /\ ex_out = <<>>

\* lines 78-105: the call returns the text, or raises
ExtractContent ==
    /\ program = "extract"
    /\ ex_pc = "call"
    /\ ex_out' = extract_content_from_html(ex_html, ex_url)
    /\ ex_pc' = IF IsRaised(ex_out') THEN "raised" ELSE "returned"
    /\ UNCHANGED <<ex_html, ex_url, notExtract>>

ExtractNext == ExtractContent

SpecExtract == ExtractInit /\ [][ExtractNext]_vars

(***************************************************************************)
(* The fan-out of get_all_news over the whole feed list, by numbers.       *)
(***************************************************************************)
\* len(RSS_FEEDS) of src/main.py
MainFeedCount == 13

Min(a, b) == IF a < b THEN a ELSE b

FanInit ==
    /\ program = "fanout"
    /\ log = {}
    /\ ChunkIdle
    /\ MainIdle
    /\ AppIdle
    /\ CacheIdle
    /\ ExtractIdle
    /\ fan_pc = "feeds"
    /\ fan_i = 0
    /\ fan_tasks = 0
    /\ fan_started = 0
    /\ fan_done = 0

\* lines 176-188: the next feed of the gathered list has n entries; one task
\* for each of its first five
FanParseFeed ==
    /\ program = "fanout"
    /\ fan_pc = "feeds"
    /\ fan_i < MainFeedCount
    /\ \E n \in 0..MaxFeedLen : fan_tasks' = fan_tasks + Min(n, EntryCap)
    /\ fan_i' = fan_i + 1
    /\ UNCHANGED <<fan_pc, fan_started, fan_done, notFan>>

\* line 179: a parsing thread raised; the coroutine ends before any fetch
FanFeedsRaise ==
    /\ program = "fanout"
    /\ fan_pc = "feeds"
    /\ fan_i < MainFeedCount
    /\ fan_pc' = "raised"
    /\ fan_tasks' = 0
    /\ UNCHANGED <<fan_i, fan_started, fan_done, notFan>>

\* line 191: every task is handed to gather at once
FanGather ==
    /\ program = "fanout"
    /\ fan_pc = "feeds"
    /\ fan_i = MainFeedCount
    /\ fan_pc' = "entries"
    /\ UNCHANGED <<fan_i, fan_tasks, fan_started, fan_done, notFan>>

\* lines 141 and 65: the next task runs to its request; nothing makes it wait
\* for another task
FanStartFetch ==
    /\ program = "fanout"
    /\ fan_pc = "entries"
    /\ fan_started < fan_tasks
    /\ fan_started' = fan_started + 1
    /\ UNCHANGED <<fan_pc, fan_i, fan_tasks, fan_done, notFan>>

\* lines 65-70: a request in flight ends, with a page or an error
FanFetchEnds ==
    /\ program = "fanout"
    /\ fan_pc = "entries"
    /\ fan_done < fan_started
    /\ fan_done' = fan_done + 1
    /\ UNCHANGED <<fan_pc, fan_i, fan_tasks, fan_started, notFan>>

\* lines 191-201: every task has returned
FanFinish ==
    /\ program = "fanout"
    /\ fan_pc = "entries"
    /\ fan_done = fan_tasks
    /\ fan_pc' = "ended"
    /\ UNCHANGED <<fan_i, fan_tasks, fan_started, fan_done, notFan>>

FanNext ==
    \/ FanParseFeed
    \/ FanFeedsRaise
    \/ FanGather
    \/ FanStartFetch
    \/ FanFetchEnds
    \/ FanFinish

SpecFanout == FanInit /\ [][FanNext]_vars

SpecMain == MainInit /\ [][MainNext]_vars

SpecApp == AppInit /\ [][AppNext]_vars

\* either service
Init == MainInit \/ AppInit
Next == MainNext \/ AppNext
Spec == Init /\ [][Next]_vars

\* the aggregation cycles of both services, and the fan-out by numbers
CyclesInit == MainInit \/ AppInit \/ FanInit
CyclesNext == MainNext \/ AppNext \/ FanNext
SpecCycles == CyclesInit /\ [][CyclesNext]_vars

(***************************************************************************)
(* Properties of the two services                                          *)
(***************************************************************************)
\* get_all_news went through line 194 (every task returned)
Gathered == program = "main" /\ outcome.status \in {200, 503}
MainEnded == program = "main" /\ gpc \in {"returned", "raised"}

HasLink(articles, link) == \E i \in 1..Len(articles) : articles[i].link = link
ArticleOf(articles, link) ==
    articles[CHOOSE i \in 1..Len(articles) : articles[i].link = link]

FetchFailed(k) == TaskEnded(task_res[k]) /\ task_res[k].page = Unreachable

\* the page of task k was fetched and its extraction gave empty text
ExtractionEmpty(k) ==
    /\ TaskEnded(task_res[k])
    /\ task_res[k].page # Unreachable
    /\ extract_content_from_html(task_res[k].page, tasks[k].link) = Return(<<>>)

C2_FeedFailureIsIsolated ==
    MainEnded =>
        \A a, b \in 1..Len(feed_tasks) :
            (IsRaised(feed_tasks[a]) /\ feed_tasks[b] # Pending
                /\ ~IsRaised(feed_tasks[b])) =>
                /\ outcome.status # 500
                /\ <<"Error processing feed", RSS_FEEDS[a]>> \in log
                /\ \A i \in 1..Len(outcome.body) :
                      outcome.body[i].source = RSS_FEEDS[b]

\* C3 as stated: a call made within the TTL of an earlier call that fetched
\* and answered 200 gets that same answer.
C3_CallWithinTtlGetsCachedAnswer ==
    program = "cache" =>
        \A c1, c2 \in Calls :
            (/\ c1 < c2
             /\ call_pc[c1] = "done" /\ call_pc[c2] = "done"
             /\ ~call_info[c1].hit
             /\ call_out[c1].status = 200
             /\ call_info[c2].at < call_info[c1].at + TTL)
            => call_out[c2] = call_out[c1]

C8_ParseExceptionIsContained ==
    MainEnded =>
        ((\E k \in 1..Len(tasks) :
              TaskEnded(task_res[k]) /\ task_res[k].page = PageRejected)
          => outcome.status # 500)

\* the list object r is the finished product of the process_feeds call of r
RunFinished(r) ==
    /\ r \in Threads
    /\ pc[r] \notin {"wait", "pf_enter", "pf_feeds", "pf_publish"}
    /\ \A i \in 1..Len(heap[r]) : "vector" \in DOMAIN heap[r][i]

\* C4: the list a /news request returns is the list of one finished
\* process_feeds run, whole: from the moment the request takes its reference
\* the list is the product of a run that has returned, and the body sent is
\* that list.
C4_NewsReturnsOneFinishedRun ==
    program = "app" =>
        /\ pc["reader"] = "gn_send" => RunFinished(resp["reader"].articles)
        /\ resp["reader"].status = 200 =>
              /\ RunFinished(resp["reader"].articles)
              /\ resp["reader"].body = heap[resp["reader"].articles]

\* C4 witness: a /news request answered 200 while a /refresh run was filling
\* its list and had already appended to it.
C4_Witness ==
    /\ program = "app"
    /\ resp["reader"].status = 200
    /\ pc["refresher"] = "pf_feeds"
    /\ heap["refresher"] # <<>>

\* C5 as stated: /news answers 503, or else 200 with a non-empty list.
C5_NewsIs503OrNonEmpty ==
    (program = "app" /\ pc["reader"] = "done") =>
        \/ resp["reader"].status = 503
        \/ /\ resp["reader"].status = 200
           /\ resp["reader"].body # <<>>
           /\ resp["reader"].count > 0

\* C6 as stated: articles_found is the number of articles of the run this
\* /refresh request made.
C6_RefreshReportsOwnRun ==
    (program = "app" /\ pc["refresher"] = "done") =>
        resp["refresher"].articles_found = Len(heap["refresher"])

(***************************************************************************)
(* Properties of chunk_text                                                *)
(***************************************************************************)
\* The non-empty trimmed paragraphs of the input, in order.
NonEmptyParagraphs(t) ==
    LET ps == split(t, NL)
        F[i \in 0..Len(ps)] ==
            IF i = 0 THEN <<>>
            ELSE IF strip(ps[i]) = <<>> THEN F[i - 1]
                 ELSE Append(F[i - 1], strip(ps[i]))
    IN  F[Len(ps)]

ChunkTexts == [i \in 1..Len(chunk_out) |-> chunk_out[i].text]

\* cs is a sequence of single-space joins of consecutive runs of ps that use
\* up ps exactly.
RECURSIVE IsPacking(_, _)
IsPacking(cs, ps) ==
    IF cs = <<>> THEN ps = <<>>
    ELSE \E k \in 1..Len(ps) :
            /\ cs[1] = join(<<SP>>, SubSeq(ps, 1, k))
            /\ IsPacking(Tail(cs), SubSeq(ps, k + 1, Len(ps)))

C11_ChunkIdsContiguous ==
    (chunk_pc = "returned" /\ chunk_out # <<>>) =>
        \A i \in 1..Len(chunk_out) :
            /\ chunk_out[i].chunk_id = i - 1
            /\ strip(chunk_out[i].text) # <<>>

\* C11 witness: a result of several chunks, from a text with blank paragraphs.
C11_Witness ==
    /\ chunk_pc = "returned"
    /\ Len(chunk_out) >= 2
    /\ Len(split(text, NL)) > Len(NonEmptyParagraphs(text))

BlankText(t) == \A i \in 1..Len(t) : t[i] \in Whitespace

\* C12: the call on the empty text, and on a text of blanks and newlines only,
\* returns the empty list (the call has no other way to end), whatever the
\* chunk size.
C12_BlankTextGivesNoChunk ==
    /\ (chunk_pc = "returned" /\ BlankText(text)) =>
           /\ chunk_out = <<>>
           /\ chunks = <<>>
           /\ current_chunk = <<>>
    /\ (chunk_pc = "loop" /\ BlankText(text)) =>
           (chunks = <<>> /\ current_chunk = <<>>)

\* C12 witness: the call returned on a text of several blank paragraphs, with
\* a chunk size a blank would fit.
C12_Witness ==
    /\ chunk_pc = "returned"
    /\ BlankText(text)
    /\ Len(split(text, NL)) >= 2
    /\ \E i \in 1..Len(text) : text[i] = SP
    /\ chunk_size >= 1

\* C20: the result of the call does not depend on its overlap argument: it is
\* what chunk_text gives for the same text and size with overlap 0 and with
\* the default overlap, and the chunks are disjoint consecutive runs of the
\* paragraphs, so no paragraph is in two chunks.
C20_OverlapHasNoEffect ==
    chunk_pc = "returned" =>
        /\ chunk_out = chunk_text(text, chunk_size, 0)
        /\ chunk_out = chunk_text(text, chunk_size, DefaultOverlap)
        /\ IsPacking(ChunkTexts, NonEmptyParagraphs(text))

\* C20 witness: a call with the default overlap returned several chunks.
C20_Witness ==
    /\ chunk_pc = "returned"
    /\ overlap = DefaultOverlap
    /\ Len(chunk_out) >= 2

(***************************************************************************)
(* Properties of extract_content_from_html                                 *)
(***************************************************************************)
\* the publisher-keyed rule of the url finds its container in the document
KeyedRuleApplies ==
    \/ ex_url.host = "vneconomy.vn" /\ "div.detail__content" \in ex_html.present
    \/ ex_url.host \in {"cafef.vn", "cafebiz.vn"}
           /\ "div#mainContent" \in ex_html.present
    \/ ex_url.host = "vietstock.vn" /\ "div#content" \in ex_html.present

\* the text of the whole document body
BodyText(html) ==
    clean_text(get_text_stripped(Decompose(html.nodes, MainRemoved), <<NL>>))

\* the first two parts of C13: a keyed rule that finds its container gives
\* that container's text only; otherwise an article region gives its text
SelectsKeyedThenArticle ==
    /\ (ex_url.host = "vneconomy.vn"
            /\ "div.detail__content" \in ex_html.present)
          => ex_out = Return(Marker("div.detail__content"))
    /\ (ex_url.host \in {"cafef.vn", "cafebiz.vn"}
            /\ "div#mainContent" \in ex_html.present)
          => ex_out = Return(Marker("div#mainContent"))
    /\ (ex_url.host = "vietstock.vn" /\ "div#content" \in ex_html.present)
          => ex_out = Return(Marker("div#content"))
    /\ (~KeyedRuleApplies /\ "article" \in ex_html.present)
          => ex_out = Return(Marker("article"))

InFlight == fan_started - fan_done

\* C14 as stated: at no moment of a cycle are more than 10 article fetches
\* in flight.
C14_InFlightAtMostTen ==
    program = "fanout" => InFlight <= 10

(***************************************************************************)
(* Properties of the fetches of one cycle                                  *)
(***************************************************************************)
\* get_all_news: a feed is parsed once, as soon as its thread has run; the
\* tasks are one for each of the first five entries of each feed; the fetch
\* of a task is issued once, and every fetch has been issued when the first
\* task ends
MainFetchesOnce ==
    (program = "main" /\ gpc # "call") =>
        /\ \A i \in 1..Len(RSS_FEEDS) :
              fetches.feeds[i] = IF feed_tasks[i] = Pending THEN 0 ELSE 1
        /\ gpc = "entries" =>
              \A i \in 1..Len(RSS_FEEDS) :
                  Cardinality({k \in 1..Len(tasks) : tasks[k].feed = RSS_FEEDS[i]})
                      = Min(Len(feed_tasks[i].entries), EntryCap)
        /\ Len(fetches.entries) = Len(tasks)
        /\ \A k \in 1..Len(tasks) :
              /\ fetches.entries[k] = IF task_res[k] = Pending THEN 0 ELSE 1
              /\ (\E j \in 1..Len(tasks) : TaskEnded(task_res[j]))
                    => fetches.entries[k] = 1

\* the fan-out by numbers: at most five tasks per feed, one fetch per task
FanFetchesOnce ==
    program = "fanout" =>
        /\ fan_tasks <= EntryCap * fan_i
        /\ fan_done <= fan_started /\ fan_started <= fan_tasks
        /\ fan_pc = "ended" => (fan_started = fan_tasks /\ fan_done = fan_tasks)

\* the feed loop of the process_feeds run of thread t has ended
FeedLoopEnded(t) == pc[t] = "pf_feeds" /\ feed_i[t] > Len(RSS_FEEDS)

\* process_feeds: feedparser.parse is called once per feed of the list
AppParsesOnce ==
    program = "app" =>
        \A t \in Threads :
            /\ pc[t] = "pf_feeds" => attempts[t].parses = feed_i[t] - 1
            /\ FeedLoopEnded(t) => attempts[t].parses = Len(RSS_FEEDS)

C16_RunReplacesCacheWholesale ==
    [][\A t \in {"startup", "reader", "refresher"} :
          (program = "app" /\ pc[t] = "pf_publish" /\ pc'[t] # "pf_publish")
              => /\ news_cache' = t
                 /\ heap'[news_cache'] = heap[t]
                 /\ Len(heap'[news_cache']) = Len(heap[t])]_vars

\* C16 witness: the startup run had cached one article or more, and the run
\* of /refresh, which found none, has just ended: the cache is its empty list.
C16_Witness ==
    /\ program = "app"
    /\ pc["refresher"] = "rf_count"
    /\ pc["reader"] = "wait"
    /\ heap["startup"] # <<>>
    /\ news_cache = "refresher"
    /\ heap[news_cache] = <<>>

(***************************************************************************)
(* Properties of the order of the answer of /v1/news                       *)
(***************************************************************************)
\* the place of an article's task in the list handed to gather
TaskOf(article) == CHOOSE k \in 1..Len(tasks) : tasks[k].link = article.link

\* the tasks that returned an article
Kept == {k \in 1..Len(tasks) : task_res[k].ret # EmptyDict}

\* C17: the list /v1/news returns holds the articles the tasks returned, each
\* once, in non-increasing order of published, articles with the same
\* published in the order of their tasks in the gathered list; this is so in
\* whatever order the fetches ended.
C17_AnswerSortedByPublished ==
    (program = "main" /\ gpc = "returned") =>
        /\ Len(outcome.body) = Cardinality(Kept)
        /\ \A k \in Kept : \E i \in 1..Len(outcome.body) :
              outcome.body[i] = task_res[k].ret
        /\ \A i, j \in 1..Len(outcome.body) : i < j =>
              /\ outcome.body[i].published >= outcome.body[j].published
              /\ outcome.body[i].published = outcome.body[j].published
                    => TaskOf(outcome.body[i]) < TaskOf(outcome.body[j])

\* C17 witness: an answer of three articles or more that is not in the order
\* of the tasks, two of them with the same published.
C17_Witness ==
    /\ program = "main"
    /\ gpc = "returned"
    /\ Len(outcome.body) >= 3
    /\ \E i, j \in 1..Len(outcome.body) :
          i < j /\ outcome.body[i].published = outcome.body[j].published
    /\ \E i, j \in 1..Len(outcome.body) :
          i < j /\ TaskOf(outcome.body[i]) > TaskOf(outcome.body[j])

(***************************************************************************)
(* Properties of the answers of src/app.py                                 *)
(***************************************************************************)
\* C18 as stated: in a 200 answer of /news, count is the number of articles
\* of that same answer.
C18_CountIsLengthOfArticles ==
    (program = "app" /\ resp["reader"].status = 200) =>
        resp["reader"].count = Len(resp["reader"].body)

\* C19: with the model unavailable no process_feeds run parses a feed or
\* fetches an article, and news_cache stays the empty list it was; /refresh
\* answers with that list's count and /news answers 503.
C19_NoModelNoFetchNoChange ==
    (program = "app" /\ ~model_ok) =>
        /\ \A t \in {"startup", "reader", "refresher"} :
              /\ pc[t] \notin {"pf_feeds", "pf_publish"}
              /\ attempts[t] = NoAttempts
              /\ heap[t] = <<>>
        /\ news_cache = "initial"
        /\ heap["initial"] = <<>>
        /\ pc["refresher"] = "done" =>
              /\ resp["refresher"].status = 200
              /\ resp["refresher"].articles_found = 0
        /\ pc["reader"] = "done" => resp["reader"].status = 503
        /\ pc["startup"] = "done" => <<"Model is not available", "">> \in log

\* C19 witness: with the model unavailable, /refresh and /news have both been
\* answered.
C19_Witness ==
    /\ program = "app"
    /\ ~model_ok
    /\ pc["refresher"] = "done"
    /\ resp["refresher"].status = 200
    /\ pc["reader"] = "done"
    /\ resp["reader"].status = 503
====
